---- MODULE Spec2Model ----
(***************************************************************************)
(* TravelPoint AI service: the conversation orchestrator                   *)
(* (generateAIResponse), the tool-call extraction and dispatch it drives,   *)
(* and the process-wide MCP connector (connectToMcpServer).                 *)
(* Source: src/unnamed/part_002, lines 226-739 (the variant with the MCP    *)
(* client); the two older variants in the same file differ where noted.     *)
(***************************************************************************)
EXTENDS Integers, Sequences, FiniteSets, TLC

(***************************************************************************)
(* Bounds of the model.                                                     *)
(***************************************************************************)
\* requests served one after the other by the process
MaxRequests == 2
\* invocations of connectToMcpServer; caller 1 is the module-load call
MaxCallers == 3

\* models.length, the endpoint list of generateAIResponse
NModels == 3

Callers == 1..MaxCallers
\* the call made when the module is loaded
LoadCall == 1

(***************************************************************************)
(* JavaScript values as far as the orchestrator inspects them.              *)
(* t is the value's kind; n the number; s the characters of a string;       *)
(* o the own properties of an object.                                       *)
(***************************************************************************)
NoProps == [k \in {} |-> 0]
Undef == [t |-> "undef", n |-> 0, s |-> <<>>, o |-> NoProps]
Null == [t |-> "null", n |-> 0, s |-> <<>>, o |-> NoProps]
Num(k) == [t |-> "num", n |-> k, s |-> <<>>, o |-> NoProps]
Str(cs) == [t |-> "str", n |-> 0, s |-> cs, o |-> NoProps]
Obj(props) == [t |-> "obj", n |-> 0, s |-> <<>>, o |-> props]

\* property read obj.k (undefined when absent)
Get(m, k) == IF k \in DOMAIN m THEN m[k] ELSE Undef
\* object spread / property write
Put(m, k, v) == [x \in (DOMAIN m) \cup {k} |-> IF x = k THEN v ELSE m[x]]
Del(m, k) == [x \in (DOMAIN m) \ {k} |-> m[x]]
Spread(a, b) == [x \in (DOMAIN a) \cup (DOMAIN b) |-> IF x \in DOMAIN b THEN b[x] ELSE a[x]]

\* JavaScript truthiness
Truthy(v) ==
    CASE v.t = "undef" -> FALSE
      [] v.t = "null" -> FALSE
      [] v.t = "num" -> v.n # 0
      [] v.t = "str" -> v.s # <<>>
      [] OTHER -> TRUE
\* typeof v === 'object'
TypeofObject(v) == v.t \in {"obj", "null"}

(***************************************************************************)
(* parseInt(v): String(v), skip leading blanks, an optional sign, then the  *)
(* longest prefix of decimal digits; NaN when that prefix is empty.         *)
(***************************************************************************)
Digits == <<"0", "1", "2", "3", "4", "5", "6", "7", "8", "9">>
IsDigit(c) == \E i \in 1..10 : Digits[i] = c
DigitVal(c) == (CHOOSE i \in 1..10 : Digits[i] = c) - 1

RECURSIVE DigitsOf(_)
DigitsOf(k) == IF k < 10 THEN <<Digits[k + 1]>> ELSE Append(DigitsOf(k \div 10), Digits[(k % 10) + 1])

\* String(v) for the kinds parseInt is handed here
ToChars(v) ==
    CASE v.t = "str" -> v.s
      [] v.t = "num" -> IF v.n < 0 THEN <<"-">> \o DigitsOf(-v.n) ELSE DigitsOf(v.n)
      [] v.t = "null" -> <<"n", "u", "l", "l">>
      [] v.t = "undef" -> <<"u", "n", "d", "e", "f", "i", "n", "e", "d">>
      [] OTHER -> <<"[", "o", "b", "j", "e", "c", "t", " ", "O", "b", "j", "e", "c", "t", "]">>

RECURSIVE SkipBlanks(_)
SkipBlanks(cs) == IF cs # <<>> /\ Head(cs) = " " THEN SkipBlanks(Tail(cs)) ELSE cs

RECURSIVE DigitPrefix(_)
DigitPrefix(cs) == IF cs # <<>> /\ IsDigit(Head(cs)) THEN <<Head(cs)>> \o DigitPrefix(Tail(cs)) ELSE <<>>

RECURSIVE DigitsValue(_, _)
DigitsValue(cs, acc) == IF cs = <<>> THEN acc ELSE DigitsValue(Tail(cs), acc * 10 + DigitVal(Head(cs)))

\* a parse that falls back to 0 instead of NaN, as (Number(v) || 0) would
parseIntOrZero(v) ==
    LET ds == DigitPrefix(SkipBlanks(ToChars(v)))
    IN  [nan |-> FALSE, val |-> IF ds = <<>> THEN 0 ELSE DigitsValue(ds, 0)]

NaN == [nan |-> TRUE, val |-> 0]
parseInt(v) ==
    LET trimmed == SkipBlanks(ToChars(v))
        signed == trimmed # <<>> /\ Head(trimmed) \in {"-", "+"}
        neg == trimmed # <<>> /\ Head(trimmed) = "-"
        body == IF signed THEN Tail(trimmed) ELSE trimmed
        ds == DigitPrefix(body)
    IN  IF ds = <<>> THEN NaN
        ELSE [nan |-> FALSE, val |-> IF neg THEN -DigitsValue(ds, 0) ELSE DigitsValue(ds, 0)]
isNaN(p) == p.nan


(***************************************************************************)
(* Strings that are never parsed as numbers (tool names, words) are written *)
(* as one element; strings handed to parseInt are spelled out by character. *)
(***************************************************************************)
Text(w) == Str(<<w>>)
IsText(v, w) == v.t = "str" /\ v.s = <<w>>

\* a || b
Or(a, b) == IF Truthy(a) THEN a ELSE b
\* v.k on a value that is neither null nor undefined
Prop(v, k) == IF v.t = "obj" THEN Get(v.o, k) ELSE Undef
\* v.k throws a TypeError
PropThrows(v) == v.t \in {"undef", "null"}
\* the own enumerable properties {...v} copies
OwnProps(v) ==
    CASE v.t = "obj" -> v.o
      [] v.t = "str" -> [k \in {Digits[i] : i \in 1..Len(v.s)} |-> Str(<<v.s[DigitVal(k) + 1]>>)]
      [] OTHER -> NoProps

(***************************************************************************)
(* The fixed user-facing texts of generateAIResponse.                       *)
(***************************************************************************)
Apology == "I'm having trouble processing your request right now. Please try again in a moment."
NeedIdCheck == "I need a valid booking ID number to check the status."
NeedIdCancel == "I need a valid booking ID number to cancel."
UnknownTool == "I couldn't understand which action to perform. Could you rephrase?"
NotConfigured == "I can see you want to use the calendar feature, but the Google Calendar service isn't fully configured yet. Please ask your administrator to set up the calendar credentials."
OperationFailed == "Calendar operation failed: "

(***************************************************************************)
(* Argument normalization of the external tools (the default branch of the  *)
(* dispatch switch). The result is the arguments handed to callTool, or a   *)
(* thrown TypeError (reading a property of null).                           *)
(***************************************************************************)
\* typeof x === 'object' ? (x.dateTime || x.date) : x
Coerce(x) == IF TypeofObject(x) THEN Or(Prop(x, "dateTime"), Prop(x, "date")) ELSE x
CoerceThrows(x) == TypeofObject(x) /\ PropThrows(x)

\* an unwrapping that lets the top-level fields win over the nested ones
NormalizeCreateEventTopFirst(args) ==
    LET a0 == args
        a1 == IF ~Truthy(Get(a0, "account")) THEN Put(a0, "account", Text("normal")) ELSE a0
        a2 == IF ~Truthy(Get(a1, "calendarId")) THEN Put(a1, "calendarId", Text("primary")) ELSE a1
        evt == Get(a2, "event")
        a3 == IF Truthy(evt)
              THEN Del(Spread(Spread(a2, OwnProps(evt)),
                              [k \in {"summary", "description", "start", "end"} |->
                                  Or(Get(a2, k), Prop(evt, k))]), "event")
              ELSE a2
        a4 == IF TypeofObject(Get(a3, "start")) /\ ~PropThrows(Get(a3, "start"))
              THEN Put(a3, "start", Coerce(Get(a3, "start"))) ELSE a3
        a5 == IF TypeofObject(Get(a4, "end")) /\ ~PropThrows(Get(a4, "end"))
              THEN Put(a4, "end", Coerce(Get(a4, "end"))) ELSE a4
    IN  [threw |-> CoerceThrows(Get(a3, "start")) \/ CoerceThrows(Get(a4, "end")), args |-> a5]

\* if (toolCall.tool === "create-event") { ... }
NormalizeCreateEvent(args) ==
    LET a0 == args
        a1 == IF ~Truthy(Get(a0, "account")) THEN Put(a0, "account", Text("normal")) ELSE a0
        a2 == IF ~Truthy(Get(a1, "calendarId")) THEN Put(a1, "calendarId", Text("primary")) ELSE a1
        evt == Get(a2, "event")
        a3 == IF Truthy(evt)
              THEN Del(Spread(Spread(a2, OwnProps(evt)),
                              [k \in {"summary", "description", "start", "end"} |->
                                  Or(Prop(evt, k), Get(a2, k))]), "event")
              ELSE a2
        a4 == IF TypeofObject(Get(a3, "start")) /\ ~PropThrows(Get(a3, "start"))
              THEN Put(a3, "start", Coerce(Get(a3, "start"))) ELSE a3
        a5 == IF TypeofObject(Get(a4, "end")) /\ ~PropThrows(Get(a4, "end"))
              THEN Put(a4, "end", Coerce(Get(a4, "end"))) ELSE a4
    IN  [threw |-> CoerceThrows(Get(a3, "start")) \/ CoerceThrows(Get(a4, "end")), args |-> a5]

NormalizeListEvents(args) ==
    LET acc == Get(args, "account")
        cal == Get(args, "calendarId")
        a1 == IF ~Truthy(acc) \/ IsText(acc, "value") \/ IsText(acc, "your_account")
              THEN Put(args, "account", Text("normal")) ELSE args
        a2 == IF ~Truthy(cal) \/ IsText(cal, "value") \/ IsText(cal, "your_calendar_id")
              THEN Put(a1, "calendarId", Text("primary")) ELSE a1
        a3 == IF ~Truthy(Get(a2, "maxResults")) THEN Put(a2, "maxResults", Num(5)) ELSE a2
    IN  [threw |-> FALSE, args |-> a3]

NormalizeCreateCalendarEvent(args) ==
    LET evt == Get(args, "event")
        es == Prop(evt, "start")
        ee == Prop(evt, "end")
    IN  IF Truthy(evt)
        THEN IF TypeofObject(es) \/ TypeofObject(ee)
             THEN [threw |-> CoerceThrows(es) \/ CoerceThrows(ee),
                   args |-> IF CoerceThrows(es) \/ CoerceThrows(ee) THEN args
                            ELSE Put(args, "event",
                                     Obj(Spread(OwnProps(evt),
                                                [k \in {"start", "end"} |-> Coerce(Prop(evt, k))])))]
             ELSE [threw |-> FALSE, args |-> args]
        ELSE [threw |-> FALSE,
              args |-> [k \in {"calendarId", "event"} |->
                           IF k = "event" THEN Obj(args)
                           ELSE Or(Get(args, "calendarId"), Text("primary"))]]

NormalizeArgs(tool, args) ==
    CASE tool = "create-event" -> NormalizeCreateEvent(args)
      [] tool = "list-events" -> NormalizeListEvents(args)
      [] tool = "create_calendar_event" -> NormalizeCreateCalendarEvent(args)
      [] OTHER -> [threw |-> FALSE, args |-> args]


(***************************************************************************)
(* Replies of a model endpoint to the decision call. raw is the text of     *)
(* response.choices[0].message.content; blocks are the balanced {...}       *)
(* candidates of the cleaned text in the order extractJson's scan reaches   *)
(* them (rightmost closing brace first), each as JSON.parse reads it, Undef *)
(* standing for a candidate JSON.parse rejects.                             *)
(***************************************************************************)
ToolCallObj(tool, args) == Obj([k \in {"tool", "args"} |-> IF k = "tool" THEN tool ELSE args])
Args1(k, v) == Obj([x \in {k} |-> v])
BookArgs(trip, pickup, drop, amount) ==
    Obj([k \in {"tripId", "pickupId", "dropId", "amount"} |->
            CASE k = "tripId" -> trip [] k = "pickupId" -> pickup
              [] k = "dropId" -> drop [] OTHER -> amount])
Reply(raw, blocks) == [raw |-> raw, blocks |-> blocks]

PlainReplies ==
    { Reply("Hello! How can I help you today?", <<>>),
      Reply("", <<>>),
      Reply("Use {curly} braces: {\"note\": 1}", <<Obj([k \in {"note"} |-> Num(1)]), Undef>>) }
InvalidToolCalls ==
    { Reply("{\"tool\": 5, \"args\": {}}", <<ToolCallObj(Num(5), Obj(NoProps))>>),
      Reply("{\"tool\": \"search_trips\"}", <<Obj([k \in {"tool"} |-> Text("search_trips")])>>),
      Reply("{\"tool\": \"search_trips\", \"args\": \"Coimbatore\"}",
            <<ToolCallObj(Text("search_trips"), Text("Coimbatore"))>>) }
SearchCalls ==
    { Reply("Sure! {\"tool\": \"search_trips\", \"args\": {\"query\": \"Coimbatore\"}} {\"note\": 1}",
            <<Obj([k \in {"note"} |-> Num(1)]), Undef,
              ToolCallObj(Text("search_trips"), Args1("query", Text("Coimbatore")))>>) }
BookingIdCalls ==
    { Reply("{\"tool\": \"get_booking_details\", \"args\": {\"bookingId\": \"abc\"}}",
            <<ToolCallObj(Text("get_booking_details"), Args1("bookingId", Str(<<"a", "b", "c">>)))>>),
      Reply("{\"tool\": \"get_booking_details\", \"args\": {}}",
            <<ToolCallObj(Text("get_booking_details"), Obj(NoProps))>>),
      Reply("{\"tool\": \"get_booking_details\", \"args\": {\"bookingId\": 5}}",
            <<ToolCallObj(Text("get_booking_details"), Args1("bookingId", Num(5)))>>),
      Reply("{\"tool\": \"get_booking_details\", \"args\": {\"bookingId\": \"12abc\"}}",
            <<ToolCallObj(Text("get_booking_details"), Args1("bookingId", Str(<<"1", "2", "a", "b", "c">>)))>>),
      Reply("{\"tool\": \"cancel_booking\", \"args\": {\"bookingId\": \"abc\"}}",
            <<ToolCallObj(Text("cancel_booking"), Args1("bookingId", Str(<<"a", "b", "c">>)))>>),
      Reply("{\"tool\": \"cancel_booking\", \"args\": {\"bookingId\": null}}",
            <<ToolCallObj(Text("cancel_booking"), Args1("bookingId", Null))>>),
      Reply("{\"tool\": \"cancel_booking\", \"args\": {\"bookingId\": \" 7\"}}",
            <<ToolCallObj(Text("cancel_booking"), Args1("bookingId", Str(<<" ", "7">>)))>>) }
BookTicketCalls ==
    { Reply("{\"tool\": \"book_ticket\", \"args\": {\"tripId\": 3, \"pickupId\": 1, \"dropId\": 2, \"amount\": 450}}",
            <<ToolCallObj(Text("book_ticket"), BookArgs(Num(3), Num(1), Num(2), Num(450)))>>),
      Reply("{\"tool\": \"book_ticket\", \"args\": {\"tripId\": \"abc\", \"pickupId\": 1, \"dropId\": 2, \"amount\": 450}}",
            <<ToolCallObj(Text("book_ticket"), BookArgs(Str(<<"a", "b", "c">>), Num(1), Num(2), Num(450)))>>),
      Reply("{\"tool\": \"book_ticket\", \"args\": {\"tripId\": 3, \"pickupId\": 1}}",
            <<ToolCallObj(Text("book_ticket"),
                          Obj([k \in {"tripId", "pickupId"} |-> IF k = "tripId" THEN Num(3) ELSE Num(1)]))>>) }
OtherToolCalls ==
    { Reply("{\"tool\": \"create-event\", \"args\": {\"summary\": \"Trip\", \"start\": {\"dateTime\": \"2026-01-20T10:00:00\"}}}",
            <<ToolCallObj(Text("create-event"),
                          Obj([k \in {"summary", "start"} |->
                                  IF k = "summary" THEN Text("Trip")
                                  ELSE Obj([d \in {"dateTime"} |-> Text("2026-01-20T10:00:00")])]))>>),
      Reply("{\"tool\": \"create-event\", \"args\": {\"summary\": \"Trip\", \"start\": null}}",
            <<ToolCallObj(Text("create-event"),
                          Obj([k \in {"summary", "start"} |-> IF k = "summary" THEN Text("Trip") ELSE Null]))>>),
      Reply("{\"tool\": \"list-events\", \"args\": {\"calendarId\": \"value\"}}",
            <<ToolCallObj(Text("list-events"), Args1("calendarId", Text("value")))>>),
      Reply("{\"tool\": \"create_calendar_event\", \"args\": {\"summary\": \"Trip\"}}",
            <<ToolCallObj(Text("create_calendar_event"), Args1("summary", Text("Trip")))>>),
      Reply("{\"tool\": \"fly_to_moon\", \"args\": {}}",
            <<ToolCallObj(Text("fly_to_moon"), Obj(NoProps))>>) }
\* the args mappings a model may emit for a calendar tool: each field absent
\* or holding one of the listed values
Absent == [t |-> "absent", n |-> 0, s |-> <<>>, o |-> NoProps]
Present(m) == [k \in {x \in DOMAIN m : m[x] # Absent} |-> m[k]]
DateTimeText == Text("2026-01-20T10:00:00")
DateText == Text("2026-01-20")
SummaryValues == {Absent, Text("Trip"), Str(<<>>)}
StartValues ==
    {Absent, Null, DateTimeText, Num(5), Obj([k \in {"dateTime"} |-> DateTimeText]),
     Obj([k \in {"date"} |-> DateText]), Obj(NoProps)}
EndValues == {Absent, Null, Obj([k \in {"dateTime"} |-> Text("2026-01-20T11:00:00")])}
NestedEvents ==
    {Obj(Present([k \in {"summary", "start"} |-> IF k = "summary" THEN sm ELSE st])) :
        sm \in {Absent, Text("Nested"), Str(<<>>)},
        st \in {Absent, Null, Text("2026-02-01T09:00:00"),
                 Obj([k \in {"dateTime"} |-> Text("2026-02-01T09:00:00")])}}
CalendarArgs ==
    {Present([k \in {"summary", "start", "end", "event"} |->
                 CASE k = "summary" -> sm [] k = "start" -> st [] k = "end" -> en [] OTHER -> ev]) :
        sm \in SummaryValues, st \in StartValues, en \in EndValues,
        ev \in {Absent} \cup NestedEvents}
CalendarTools == {"create-event", "list-events", "create_calendar_event"}
\* the reply whose text is the JSON of the call of tool with args
ArgsReply(tool, args) ==
    Reply([json |-> ToolCallObj(Text(tool), Obj(args))], <<ToolCallObj(Text(tool), Obj(args))>>)

Replies == PlainReplies \cup InvalidToolCalls \cup SearchCalls \cup BookingIdCalls
               \cup BookTicketCalls \cup OtherToolCalls
NoReply == Reply("", <<>>)

(***************************************************************************)
(* extractJson: the first candidate, in scan order, that parses to an       *)
(* object with a truthy tool property; 0 stands for null.                   *)
(***************************************************************************)
\* the heuristic without its "tool" test: any parsed object is taken
AcceptsAnyObject(parsed) == Truthy(parsed) /\ TypeofObject(parsed)

\* parsed && typeof parsed === 'object' && parsed.tool
Accepts(parsed) == Truthy(parsed) /\ TypeofObject(parsed) /\ Truthy(Prop(parsed, "tool"))
extractJson(content) ==
    IF \E i \in 1..Len(content.blocks) : Accepts(content.blocks[i])
    THEN CHOOSE i \in 1..Len(content.blocks) :
             /\ Accepts(content.blocks[i])
             /\ \A j \in 1..(i - 1) : ~Accepts(content.blocks[j])
    ELSE 0

\* a validation that checks the tool name only
isValidToolCallNameOnly(obj) == Truthy(obj) /\ Prop(obj, "tool").t = "str"

\* obj && typeof obj.tool === 'string' && obj.args && typeof obj.args === 'object'
isValidToolCall(obj) ==
    /\ Truthy(obj)
    /\ Prop(obj, "tool").t = "str"
    /\ Truthy(Prop(obj, "args"))
    /\ TypeofObject(Prop(obj, "args"))

(***************************************************************************)
(* extractJson on the text itself. A text is a sequence of pieces: the two  *)
(* brace characters, a "tool" member, a member whose string value holds a   *)
(* closing brace, a prose word and a fence marker. Inside an object a       *)
(* nested object stands for the member "args":{...}; separators are left    *)
(* out of the spelling.                                                     *)
(***************************************************************************)
MaxLen == 6

LBrace == "{"
RBrace == "}"
ToolMember == "\"tool\":\"search_trips\""
BraceMember == "\"note\":\"}\""
\* what is left of BraceMember in a candidate that ends at its brace
CutMember == "\"note\":\"}"
Word == "Sure"
\* the markdown fence marker (three backquotes, with or without "json")
Fence == "fence"
Pieces == {LBrace, RBrace, ToolMember, BraceMember, Word, Fence}

\* the texts of at most MaxLen pieces
Texts == UNION {[1..n -> Pieces] : n \in 0..MaxLen}

RECURSIVE Without(_, _)
Without(text, removed) ==
    IF text = <<>> THEN <<>>
    ELSE IF Head(text) \in removed THEN Without(Tail(text), removed)
         ELSE <<Head(text)>> \o Without(Tail(text), removed)

\* the replace() chain: fence markers are deleted wherever they stand
Clean(text) == Without(text, {Fence})

\* JSON.parse(candidate): the value, or Undef where JSON.parse throws
RECURSIVE ParseMembers(_, _, _)
ParseMembers(ts, j, props) ==
    CASE j > Len(ts) -> [ok |-> FALSE, props |-> props, next |-> j]
      [] j <= Len(ts) /\ ts[j] = RBrace -> [ok |-> TRUE, props |-> props, next |-> j + 1]
      [] j <= Len(ts) /\ ts[j] = ToolMember ->
             ParseMembers(ts, j + 1, Put(props, "tool", Text("search_trips")))
      [] j <= Len(ts) /\ ts[j] = BraceMember ->
             ParseMembers(ts, j + 1, Put(props, "note", Text("}")))
      [] j <= Len(ts) /\ ts[j] = LBrace ->
             LET inner == ParseMembers(ts, j + 1, NoProps)
             IN  IF inner.ok
                 THEN ParseMembers(ts, inner.next, Put(props, "args", Obj(inner.props)))
                 ELSE [ok |-> FALSE, props |-> props, next |-> inner.next]
      [] OTHER -> [ok |-> FALSE, props |-> props, next |-> j]
JsonParse(ts) ==
    IF ts # <<>> /\ ts[1] = LBrace
    THEN LET r == ParseMembers(ts, 2, NoProps)
         IN  IF r.ok /\ r.next = Len(ts) + 1 THEN Obj(r.props) ELSE Undef
    ELSE Undef

\* clean[i] === '}' and clean[i] === '{' at the character the scan reads in piece p
IsClosing(p) == p \in {RBrace, BraceMember}
IsOpening(p) == p = LBrace
\* clean.substring(i, closeIdx + 1)
Substring(clean, i, closeIdx) ==
    IF clean[closeIdx] = BraceMember
    THEN Append(SubSeq(clean, i, closeIdx - 1), CutMember)
    ELSE SubSeq(clean, i, closeIdx)

\* closingIndices: the positions of '}' from the last to the first
RECURSIVE ClosingIndices(_, _)
ClosingIndices(clean, i) ==
    IF i = 0 THEN <<>>
    ELSE (IF IsClosing(clean[i]) THEN <<i>> ELSE <<>>) \o ClosingIndices(clean, i - 1)

\* the inner loop from position i leftwards with the balance carried so far:
\* the candidates clean.substring(i, closeIdx + 1) at every i where balance === 0
RECURSIVE BalancedFrom(_, _, _, _)
BalancedFrom(clean, closeIdx, i, balance) ==
    IF i = 0 THEN <<>>
    ELSE LET b == CASE IsClosing(clean[i]) -> balance + 1
                    [] IsOpening(clean[i]) -> balance - 1
                    [] OTHER -> balance
         IN  (IF b = 0 THEN <<Substring(clean, i, closeIdx)>> ELSE <<>>)
                 \o BalancedFrom(clean, closeIdx, i - 1, b)

RECURSIVE Flatten(_)
Flatten(lists) == IF lists = <<>> THEN <<>> ELSE Head(lists) \o Flatten(Tail(lists))

\* the oldest helper of the file: the single block from the first '{' to the last '}'
FirstToLastBrace(clean) ==
    LET opens == {i \in 1..Len(clean) : IsOpening(clean[i])}
        closes == {i \in 1..Len(clean) : IsClosing(clean[i])}
        first == CHOOSE i \in opens : \A j \in opens : i <= j
        last == CHOOSE i \in closes : \A j \in closes : j <= i
    IN  IF opens # {} /\ closes # {} /\ first < last
        THEN <<Substring(clean, first, last)>>
        ELSE <<>>

\* the candidates of the cleaned text in the order the two loops reach them
ScanCandidates(clean) ==
    LET closing == ClosingIndices(clean, Len(clean))
    IN  Flatten([k \in 1..Len(closing) |-> BalancedFrom(clean, closing[k], closing[k], 0)])

\* a reply with the text text: its candidates as JSON.parse reads them
TextReply(text) ==
    LET candidates == ScanCandidates(Clean(text))
    IN  Reply(text, [k \in 1..Len(candidates) |-> JsonParse(candidates[k])])
\* the string extractJson returns for a reply made by TextReply (<<>> for null)
ExtractedText(c) ==
    IF extractJson(c) = 0 THEN <<>>
    ELSE ScanCandidates(Clean(c.raw))[extractJson(c)]


(***************************************************************************)
(* Tool results and executor invocations.                                   *)
(***************************************************************************)
\* toolResult.length > 4000
TruncateAt == 4000
\* "\n... (Output truncated due to length limits)".length
MarkerLen == 44

\* a tool result text: the words it is made of, the number of characters of
\* the external provider's text it carries (0 for any other text), and whether
\* the truncation marker follows
Result(words, len) == [words |-> words, len |-> len, marker |-> FALSE]
NoResult == Result(<<>>, 0)
ResultLength(r) == r.len + (IF r.marker THEN MarkerLen ELSE 0)

\* a cut that starts at the threshold itself (length >= 4000)
TruncateInclusive(r) ==
    IF r.len > 0 /\ r.len >= TruncateAt
    THEN [words |-> r.words, len |-> TruncateAt, marker |-> TRUE]
    ELSE r

\* if (toolResult && toolResult.length > 4000) toolResult = toolResult.substring(0, 4000) + marker
Truncate(r) ==
    IF r.len > 0 /\ r.len > TruncateAt
    THEN [words |-> r.words, len |-> TruncateAt, marker |-> TRUE]
    ELSE r

\* toolCall.tool.includes('calendar'), over the tool names of Replies
IncludesCalendar(name) == name \in {"create_calendar_event"}

\* a catch that leaves the tool result as it was initialised: let toolResult = ""
McpFailureSilent(name, message) == Result(<<>>, 0)

\* the catch (mcpError) branch: the tool result that replaces the failure
McpFailure(name, message) ==
    IF IncludesCalendar(name) THEN Result(<<NotConfigured>>, 0)
    ELSE Result(<<OperationFailed, message>>, 0)

TypeErrorMessage == "Cannot read properties of null"

Invoke(fn, args) == [fn |-> fn, args |-> args]

(***************************************************************************)
(* The synchronous stretch of generateAIResponse from the decision reply    *)
(* to the next await or return: extraction, validation and the dispatch     *)
(* switch. kind is "return" (reply is returned), "builtin" or "mcp" (exec   *)
(* is invoked and awaited) or "summary" (normalization threw: the summary   *)
(* call is issued with toolResult).                                         *)
(***************************************************************************)
Return(text) == [kind |-> "return", reply |-> text, exec |-> Invoke("none", <<>>), toolResult |-> NoResult]
Await(kind, exec) == [kind |-> kind, reply |-> "", exec |-> exec, toolResult |-> NoResult]

\* case "get_booking_details" / case "cancel_booking"
BookingIdCase(args, fn, message) ==
    LET id == parseInt(Prop(args, "bookingId"))
    IN  IF isNaN(id) THEN Return(message) ELSE Await("builtin", Invoke(fn, <<Num(id.val)>>))

\* case "book_ticket"
BookTicketCase(args, userId) ==
    Await("builtin", Invoke("bookTicket", <<Prop(args, "tripId"), Num(userId), Prop(args, "pickupId"),
                                             Prop(args, "dropId"), Prop(args, "amount")>>))

\* a dispatch test that forgets the name lookup
IsMcpToolAnyName(name, client, tools) == client # 0

\* mcpClient && mcpToolsOrchestration.some(t => t.name === toolCall.tool)
IsMcpTool(name, client, tools) == client # 0 /\ \E i \in 1..Len(tools) : tools[i] = name

\* default:
DefaultCase(name, args, client, tools) ==
    IF IsMcpTool(name, client, tools)
    THEN LET norm == NormalizeArgs(name, args.o)
         IN  IF norm.threw
             THEN [kind |-> "summary", reply |-> "", exec |-> Invoke("none", <<>>),
                   toolResult |-> McpFailure(name, TypeErrorMessage)]
             ELSE Await("mcp", Invoke("callTool", <<Text(name), Obj(norm.args)>>))
    ELSE Return(UnknownTool)

\* returning the (absent) extracted text instead of the reply
PlainReplyReturnsExtracted(content) == Return("")

\* E. No tool call detected: return content;
PlainReply(content) == Return(content.raw)

\* a dispatch without the built-in cases: every name goes to the default branch
DispatchExternalOnly(content, userId, client, tools) ==
    LET jsonStr == extractJson(content)
    IN  IF jsonStr = 0 THEN PlainReply(content)
        ELSE LET toolCall == content.blocks[jsonStr]
             IN  IF ~isValidToolCall(toolCall) THEN Return(content.raw)
                 ELSE DefaultCase(Prop(toolCall, "tool").s[1], Prop(toolCall, "args"), client, tools)

\* extraction, validation, then the switch on toolCall.tool
Dispatch(content, userId, client, tools) ==
    LET jsonStr == extractJson(content)
    IN  IF jsonStr = 0 THEN PlainReply(content)
        ELSE LET toolCall == content.blocks[jsonStr]
                 name == Prop(toolCall, "tool").s[1]
                 args == Prop(toolCall, "args")
             IN  IF ~isValidToolCall(toolCall) THEN Return(content.raw)
                 ELSE CASE name = "search_trips" ->
                               Await("builtin", Invoke("searchTrips", <<Prop(args, "query")>>))
                        [] name = "get_booking_details" ->
                               BookingIdCase(args, "getBookingDetails", NeedIdCheck)
                        [] name = "cancel_booking" ->
                               BookingIdCase(args, "cancelTicket", NeedIdCancel)
                        [] name = "book_ticket" -> BookTicketCase(args, userId)
                        [] OTHER -> DefaultCase(name, args, client, tools)


(***************************************************************************)
(* State.                                                                   *)
(***************************************************************************)
VARIABLES
    \* the MCP connector: module-level state of the service
    mcpClient,              \* 0 is null; otherwise the caller whose client it is
    mcpToolsOrchestration,  \* names of the external tools, in order
    \* the invocations of connectToMcpServer
    cpc,                    \* caller -> "idle", "handshake", "listing", "done"
    returned,               \* caller -> what its call returned ("pending", "undefined", "client")
    launchedBy,             \* callers that created a transport and dialled
    sawInflight,            \* callers that entered while another attempt was in flight
    sawSettled,             \* callers that entered after another attempt had settled
    late,                   \* callers whose connect() is still pending after their timeout fired
    \* the request being served by generateAIResponse
    nreq,                   \* requests started so far
    pc,                     \* "idle", "decision", "builtin", "mcp", "summary", "done"
    userId,                 \* the userId parameter
    model,                  \* the loop variable: index into models
    content,                \* the decision reply of the current endpoint
    toolResult,
    reply,                  \* what generateAIResponse returned
    \* what the request did, in order
    calls,                  \* decision calls: [model, manifest]
    failed,                 \* endpoints whose decision call failed
    execs,                  \* executor invocations
    summaries               \* summary calls: [model, assistant, toolResult]

VARIABLES
    \* the HTTP request being served by chatWithAI
    nchat,                  \* HTTP requests received so far
    chatPc,                 \* "idle", "awaiting" (generateAIResponse), "done"
    chatReq,                \* [message, user]: req.body.message and req.user
    chatRes,                \* the responses sent on res, in order
    agentCalls              \* the calls of generateAIResponse: [message, userId]

VARIABLES
    \* the MCP server process (src/unnamed/part_004): one tool call
    srvPc,                  \* "idle", then the await the handler stands at, "done"
    srvCall,                \* [tool, key, args]: the tool, TRAVEL_API_KEY, the arguments
    srvUser,                \* the row getAuthenticatedUser returned, or NoUser
    srvOut,                 \* the texts the handler returned, in order
    connection,             \* "none", "held", "released": the pooled connection
    pending,                \* rows inserted in the open transaction
    committed,              \* rows of the tables route and stops
    cancelTicketCalls       \* the booking ids handed to bookingTools.cancelTicket

VARIABLES
    \* uploadRouteCSV (src/backend/src/controllers/uploadController.ts): one upload;
    \* it uses the pool and the tables above
    upPc,                   \* "idle", the event or await the handler waits for, "done", "abandoned"
    upRows,                 \* results: the rows of the CSV file
    upFile,                 \* "none", "stored", "deleted": the uploaded file on disk
    upRes                   \* the responses sent on res, in order

connector == <<mcpClient, mcpToolsOrchestration, cpc, returned, launchedBy, sawInflight, sawSettled, late>>
request == <<nreq, pc, userId, model, content, toolResult, reply, calls, failed, execs, summaries>>
chat == <<nchat, chatPc, chatReq, chatRes, agentCalls>>
\* the state of the handlers outside the AI service
server == <<srvPc, srvCall, srvUser, srvOut, connection, pending, committed, cancelTicketCalls>>
upload == <<upPc, upRows, upFile, upRes>>
handlers == <<chat, server, upload>>
vars == <<connector, request, handlers>>

\* the list result.tools may hold: the provider's tools, an empty list, a
\* provider that also offers a tool named like a built-in
LiveToolLists ==
    { <<"list-events", "create-event", "create_calendar_event">>,
      <<>>,
      <<"list-events", "search_trips">> }
\* the tools of SYSTEM_INSTRUCTION_BASE, the cases of the dispatch switch
BuiltinTools == <<"get_booking_details", "search_trips", "cancel_booking", "book_ticket">>

\* a connector without fallback definitions
NoFallbackTools == <<>>

\* the hard-coded list of the catch (toolError) branch
FallbackTools == <<"add-account", "create-event", "list-events">>

UserIds == {1, 42}
Pending == [kind |-> "pending", text |-> ""]
ReturnsText(t) == [kind |-> "text", text |-> t]
ReturnsUndefined == [kind |-> "undefined", text |-> ""]

\* finalResponse.choices[0]?.message?.content: a text, the empty text, or undefined
SummaryOutcomes == {ReturnsText("Your trip is booked. Have a nice journey!"), ReturnsText(""), ReturnsUndefined}
\* lengths of the text an external tool returns
ProviderLengths == {0, 120, 4000, 4001, 9000}
ProviderErrors == {"No authenticated accounts", "calendar quota exceeded", "socket hang up"}

Init ==
    /\ mcpClient = 0
    /\ mcpToolsOrchestration = <<>>
    \* the module-load call has created its transport and awaits the handshake
    /\ cpc = [c \in Callers |-> IF c = LoadCall THEN "handshake" ELSE "idle"]
    /\ returned = [c \in Callers |-> "pending"]
    /\ launchedBy = {LoadCall}
    /\ sawInflight = {}
    /\ sawSettled = {}
    /\ late = {}
    /\ nreq = 0
    /\ pc = "idle"
    /\ userId = 1
    /\ model = 0
    /\ content = NoReply
    /\ toolResult = NoResult
    /\ reply = Pending
    /\ calls = <<>>
    /\ failed = <<>>
    /\ execs = <<>>
    /\ summaries = <<>>
    /\ nchat = 0
    /\ chatPc = "idle"
    /\ chatReq = [message |-> Undef, user |-> Undef]
    /\ chatRes = <<>>
    /\ agentCalls = <<>>
    /\ srvPc = "idle"
    /\ srvCall = [tool |-> "none", key |-> Undef, args |-> <<>>]
    /\ srvUser = [api_key |-> <<>>, user_id |-> 0, role |-> "none"]
    /\ srvOut = <<>>
    /\ connection = "none"
    /\ pending = <<>>
    /\ committed = <<>>
    /\ cancelTicketCalls = <<>>
    /\ upPc = "idle"
    /\ upRows = <<>>
    /\ upFile = "none"
    /\ upRes = <<>>


(***************************************************************************)
(* connectToMcpServer. Each await is a point where other callers and the    *)
(* request handler run.                                                     *)
(***************************************************************************)
InFlight(c) == cpc[c] \in {"handshake", "listing"}
Settled(c) == cpc[c] = "done"

\* if (mcpClient) return mcpClient;
AlreadyConnected(client) == client # 0

\* entry up to await Promise.race([connectionPromise, timeoutPromise])
Connect(c) ==
    /\ cpc[c] = "idle"
    /\ sawInflight' = IF \E d \in Callers : InFlight(d) THEN sawInflight \cup {c} ELSE sawInflight
    /\ sawSettled' = IF \E d \in Callers : Settled(d) THEN sawSettled \cup {c} ELSE sawSettled
    /\ IF AlreadyConnected(mcpClient)
       THEN /\ cpc' = [cpc EXCEPT ![c] = "done"]
            /\ returned' = [returned EXCEPT ![c] = "client"]
            /\ UNCHANGED launchedBy
       ELSE /\ cpc' = [cpc EXCEPT ![c] = "handshake"]
            /\ launchedBy' = launchedBy \cup {c}
            /\ UNCHANGED returned
    /\ UNCHANGED <<mcpClient, mcpToolsOrchestration, late, request, handlers>>

\* a handshake that publishes the client only once discovery has ended
HandshakeResolvesUnpublished(c) ==
    /\ cpc[c] = "handshake"
    /\ cpc' = [cpc EXCEPT ![c] = "listing"]
    /\ UNCHANGED <<mcpClient, mcpToolsOrchestration, returned, launchedBy, sawInflight, sawSettled, late, request, handlers>>

\* client.connect(transport) resolves first: mcpClient = client; then await client.listTools()
HandshakeResolves(c) ==
    /\ cpc[c] = "handshake"
    /\ mcpClient' = c
    /\ cpc' = [cpc EXCEPT ![c] = "listing"]
    /\ UNCHANGED <<mcpToolsOrchestration, returned, launchedBy, sawInflight, sawSettled, late, request, handlers>>

\* client.connect(transport) rejects first: catch (e), the function returns undefined
HandshakeRejects(c) ==
    /\ cpc[c] = "handshake"
    /\ cpc' = [cpc EXCEPT ![c] = "done"]
    /\ returned' = [returned EXCEPT ![c] = "undefined"]
    /\ UNCHANGED <<mcpClient, mcpToolsOrchestration, launchedBy, sawInflight, sawSettled, late, request, handlers>>

\* the timeout promise rejects first: catch (e); connect() itself stays pending
ConnectionTimesOut(c) ==
    /\ cpc[c] = "handshake"
    /\ cpc' = [cpc EXCEPT ![c] = "done"]
    /\ returned' = [returned EXCEPT ![c] = "undefined"]
    /\ late' = late \cup {c}
    /\ UNCHANGED <<mcpClient, mcpToolsOrchestration, launchedBy, sawInflight, sawSettled, request, handlers>>

\* a late connect() whose client is adopted after all
LateHandshakeAdopts(c) ==
    /\ c \in late
    /\ late' = late \ {c}
    /\ mcpClient' = c
    /\ UNCHANGED <<mcpToolsOrchestration, cpc, returned, launchedBy, sawInflight, sawSettled, request, handlers>>

\* connect() settles after the race was lost: nobody awaits it any more
LateHandshake(c) ==
    /\ c \in late
    /\ late' = late \ {c}
    /\ UNCHANGED <<mcpClient, mcpToolsOrchestration, cpc, returned, launchedBy, sawInflight, sawSettled, request, handlers>>

\* mcpToolsOrchestration = result.tools
ListToolsResolves(c, tools) ==
    /\ cpc[c] = "listing"
    /\ mcpToolsOrchestration' = tools
    /\ cpc' = [cpc EXCEPT ![c] = "done"]
    /\ returned' = [returned EXCEPT ![c] = "undefined"]
    /\ UNCHANGED <<mcpClient, launchedBy, sawInflight, sawSettled, late, request, handlers>>

\* catch (toolError): the fallback definitions
ListToolsRejects(c) ==
    /\ cpc[c] = "listing"
    /\ mcpToolsOrchestration' = FallbackTools
    /\ cpc' = [cpc EXCEPT ![c] = "done"]
    /\ returned' = [returned EXCEPT ![c] = "undefined"]
    /\ UNCHANGED <<mcpClient, launchedBy, sawInflight, sawSettled, late, request, handlers>>

\* the steps of one invocation after its entry
ConnectSteps(c) ==
    \/ HandshakeResolves(c)
    \/ HandshakeRejects(c)
    \/ ConnectionTimesOut(c)
    \/ LateHandshake(c)
    \/ \E tools \in LiveToolLists : ListToolsResolves(c, tools)
    \/ ListToolsRejects(c)

\* the module-load call, connectToMcpServer().catch(...), the only call the service makes
LoadNext == ConnectSteps(LoadCall)

\* connectToMcpServer entered again, by any number of callers at any time
ReentryNext == \E c \in Callers : Connect(c) \/ ConnectSteps(c)

(***************************************************************************)
(* generateAIResponse.                                                      *)
(***************************************************************************)
\* an endpoint cursor kept across requests: resume where the last request ended
FirstEndpointSticky(previous) == IF previous = 0 THEN 1 ELSE previous

\* for (const model of models): the loop starts at the first endpoint
FirstEndpoint(previous) == 1
\* continue: the next endpoint of the list
NextEndpoint(m) == m + 1

\* a system instruction that always lists the fallback definitions
DecisionCallListsFallback(m) == [model |-> m, manifest |-> FallbackTools]

\* hf.chatCompletion for the decision: the system message is buildSystemInstruction()
DecisionCall(m) == [model |-> m, manifest |-> mcpToolsOrchestration]
\* hf.chatCompletion for the summary, on the same endpoint
SummaryCall(m, jsonStr, result) ==
    [model |-> m, assistant |-> jsonStr, toolResult |-> result, manifest |-> mcpToolsOrchestration]

\* a single try around the whole loop body: every throw moves on to the next endpoint
CatchOfFlat(site) == "outer"

\* which catch a throw at an await reaches: the decision call is enclosed by the
\* loop body's try only, the tool call and the summary call also by the inner try
CatchOf(site) == IF site = "decision" THEN "outer" ELSE "inner"

\* rethrowing lastError instead of returning the apology
AllModelsFailedRethrows == [kind |-> "exception", text |-> "lastError"]

\* after the loop: return the apology
AllModelsFailed == ReturnsText(Apology)

\* a throw at the await `site` of the current iteration
Thrown(site) ==
    IF CatchOf(site) = "inner"
    THEN \* catch (parseError) { return content; }
         /\ reply' = ReturnsText(content.raw)
         /\ pc' = "done"
         /\ UNCHANGED <<model, calls, failed>>
    ELSE \* catch (error) { lastError = error; continue; }
         /\ failed' = Append(failed, model)
         /\ IF model < NModels
            THEN /\ model' = NextEndpoint(model)
                 /\ calls' = Append(calls, DecisionCall(NextEndpoint(model)))
                 /\ pc' = "decision"
                 /\ UNCHANGED reply
            ELSE /\ reply' = AllModelsFailed
                 /\ pc' = "done"
                 /\ UNCHANGED <<model, calls>>

\* the entry of generateAIResponse(userMessage, userId) up to its first await
Enter(uid) ==
    /\ pc \in {"idle", "done"}
    /\ nreq < MaxRequests
    /\ nreq' = nreq + 1
    /\ userId' = uid
    /\ model' = FirstEndpoint(model)
    /\ calls' = <<DecisionCall(FirstEndpoint(model))>>
    /\ failed' = <<>>
    /\ execs' = <<>>
    /\ summaries' = <<>>
    /\ content' = NoReply
    /\ toolResult' = NoResult
    /\ reply' = Pending
    /\ pc' = "decision"
    /\ UNCHANGED connector

\* a request that reaches generateAIResponse with the user id uid
StartRequest(uid) == Enter(uid) /\ UNCHANGED handlers

\* the decision call throws (transport error, non-2xx, timeout, a response
\* without choices)
DecisionFails ==
    /\ pc = "decision"
    /\ Thrown("decision")
    /\ UNCHANGED <<nreq, userId, content, toolResult, execs, summaries, connector, handlers>>

\* the decision call returns c: extraction, validation, dispatch
DecisionReturns(c) ==
    /\ pc = "decision"
    /\ content' = c
    /\ LET d == Dispatch(c, userId, mcpClient, mcpToolsOrchestration)
       IN  CASE d.kind = "return" ->
                    /\ reply' = ReturnsText(d.reply)
                    /\ pc' = "done"
                    /\ UNCHANGED <<toolResult, execs, summaries>>
             [] d.kind \in {"builtin", "mcp"} ->
                    /\ execs' = Append(execs, d.exec)
                    /\ pc' = d.kind
                    /\ UNCHANGED <<toolResult, reply, summaries>>
             [] OTHER ->
                    /\ toolResult' = d.toolResult
                    /\ summaries' = Append(summaries, SummaryCall(model, extractJson(c), d.toolResult))
                    /\ pc' = "summary"
                    /\ UNCHANGED <<reply, execs>>
    /\ UNCHANGED <<nreq, userId, model, calls, failed, connector, handlers>>

\* the built-in executor returns its text; the summary call is issued
ExecutorReturns ==
    /\ pc = "builtin"
    /\ toolResult' = Result(<<"tool output">>, 0)
    /\ summaries' = Append(summaries, SummaryCall(model, extractJson(content), Result(<<"tool output">>, 0)))
    /\ pc' = "summary"
    /\ UNCHANGED <<nreq, userId, model, content, reply, calls, failed, execs, connector, handlers>>

\* the built-in executor throws
ExecutorThrows ==
    /\ pc = "builtin"
    /\ Thrown("tool")
    /\ UNCHANGED <<nreq, userId, content, toolResult, execs, summaries, connector, handlers>>

\* mcpClient.callTool returns: the text parts joined, truncated, then the summary call
McpReturns(len) ==
    /\ pc = "mcp"
    /\ toolResult' = Truncate(Result(<<"provider output">>, len))
    /\ summaries' = Append(summaries, SummaryCall(model, extractJson(content), Truncate(Result(<<"provider output">>, len))))
    /\ pc' = "summary"
    /\ UNCHANGED <<nreq, userId, model, content, reply, calls, failed, execs, connector, handlers>>

\* a catch (mcpError) that also gives up the client
McpThrowsDropsClient(message) ==
    /\ pc = "mcp"
    /\ LET name == execs[Len(execs)].args[1].s[1]
       IN  /\ toolResult' = McpFailure(name, message)
           /\ summaries' = Append(summaries, SummaryCall(model, extractJson(content), McpFailure(name, message)))
    /\ pc' = "summary"
    /\ mcpClient' = 0
    /\ UNCHANGED <<nreq, userId, model, content, reply, calls, failed, execs>>
    /\ UNCHANGED <<mcpToolsOrchestration, cpc, returned, launchedBy, sawInflight, sawSettled, late, handlers>>

\* mcpClient.callTool throws: catch (mcpError), then the summary call
McpThrows(message) ==
    /\ pc = "mcp"
    /\ LET name == execs[Len(execs)].args[1].s[1]
       IN  /\ toolResult' = McpFailure(name, message)
           /\ summaries' = Append(summaries, SummaryCall(model, extractJson(content), McpFailure(name, message)))
    /\ pc' = "summary"
    /\ UNCHANGED <<nreq, userId, model, content, reply, calls, failed, execs, connector, handlers>>

\* return finalResponse.choices[0]?.message?.content;
SummaryReturns(out) ==
    /\ pc = "summary"
    /\ reply' = out
    /\ pc' = "done"
    /\ UNCHANGED <<nreq, userId, model, content, toolResult, calls, failed, execs, summaries, connector, handlers>>

\* a summary failure handled like a decision failure: on to the next endpoint
SummaryThrowsNextEndpoint ==
    /\ pc = "summary"
    /\ failed' = Append(failed, model)
    /\ IF model < NModels
       THEN /\ model' = NextEndpoint(model)
            /\ calls' = Append(calls, DecisionCall(NextEndpoint(model)))
            /\ pc' = "decision"
            /\ UNCHANGED reply
       ELSE /\ reply' = AllModelsFailed
            /\ pc' = "done"
            /\ UNCHANGED <<model, calls>>
    /\ UNCHANGED <<nreq, userId, content, toolResult, execs, summaries, connector, handlers>>

\* the summary call throws
SummaryThrows ==
    /\ pc = "summary"
    /\ Thrown("summary")
    /\ UNCHANGED <<nreq, userId, content, toolResult, execs, summaries, connector, handlers>>

RequestNext ==
    \/ \E uid \in UserIds : StartRequest(uid)
    \/ DecisionFails
    \/ \E c \in Replies : DecisionReturns(c)
    \/ ExecutorReturns
    \/ ExecutorThrows
    \/ \E len \in ProviderLengths : McpReturns(len)
    \/ \E message \in ProviderErrors : McpThrows(message)
    \/ \E out \in SummaryOutcomes : SummaryReturns(out)
    \/ SummaryThrows

\* the service as shipped: one connector initialization at module load, and requests
Next == LoadNext \/ RequestNext
Spec == Init /\ [][Next]_vars

\* the connector under repeated and concurrent calls of connectToMcpServer
ReentrySpec == Init /\ [][ReentryNext]_vars

\* the endpoint that may stay silent for ever; the awaits on it have no timer
SilentEndpoint == 1
\* what is certain to happen: the connector's handshake settles (it is raced
\* against a 60 s timer), the tool executors and every other endpoint answer
Responses ==
    \/ ExecutorReturns
    \/ ExecutorThrows
    \/ \E len \in ProviderLengths : McpReturns(len)
    \/ \E message \in ProviderErrors : McpThrows(message)
    \/ model # SilentEndpoint /\ DecisionFails
    \/ model # SilentEndpoint /\ \E c \in Replies : DecisionReturns(c)
    \/ model # SilentEndpoint /\ \E out \in SummaryOutcomes : SummaryReturns(out)
    \/ model # SilentEndpoint /\ SummaryThrows
LiveSpec == Init /\ [][Next]_vars /\ WF_vars(LoadNext) /\ WF_vars(Responses)

\* the connector's initialization and one request whose decision call returns a
\* call of a calendar tool with any of CalendarArgs
NormNext ==
    \/ LoadNext
    \/ nreq = 0 /\ StartRequest(LoadCall)
    \/ pc = "decision" /\ \E tool \in CalendarTools, args \in CalendarArgs :
                               DecisionReturns(ArgsReply(tool, args))
    \/ \E len \in ProviderLengths : McpReturns(len)
    \/ \E message \in ProviderErrors : McpThrows(message)
    \/ \E out \in SummaryOutcomes : SummaryReturns(out)
    \/ SummaryThrows
NormSpec == Init /\ [][NormNext]_vars

(***************************************************************************)
(* chatWithAI, the controller in front of generateAIResponse                *)
(* (src/unnamed/part_003, lines 6-29). HTTP requests are served one after   *)
(* the other.                                                               *)
(***************************************************************************)
\* req.body.message: missing, empty, a question
ChatMessages == {Undef, Str(<<>>), Text("Book a bus to Coimbatore")}
\* req.user as the authentication middleware left it: not set, a token payload
\* without user_id, the users 1 and 42
ChatUsers ==
    {Undef, Obj(NoProps), Obj([k \in {"user_id"} |-> Num(1)]), Obj([k \in {"user_id"} |-> Num(42)])}

Response(status, body) == [status |-> status, body |-> body]
\* userId: number = 1, the default of generateAIResponse's second parameter
DefaultUserId == 1
Param(v) == IF v = Undef THEN DefaultUserId ELSE v.n

\* a controller without the authentication check
chatWithAIUnchecked(message, user) ==
    /\ chatPc \in {"idle", "done"}
    /\ pc \in {"idle", "done"}
    /\ nchat < MaxRequests
    /\ nchat' = nchat + 1
    /\ chatReq' = [message |-> message, user |-> user]
    /\ IF ~Truthy(message)
       THEN /\ chatRes' = <<Response(400, "Message is required")>>
            /\ agentCalls' = <<>>
            /\ chatPc' = "done"
            /\ UNCHANGED <<connector, request>>
       ELSE /\ Enter(Param(Prop(user, "user_id")))
            /\ agentCalls' = <<[message |-> message, userId |-> Param(Prop(user, "user_id"))]>>
            /\ chatRes' = <<>>
            /\ chatPc' = "awaiting"
    /\ UNCHANGED <<server, upload>>

\* chatWithAI from its entry to a response or to await generateAIResponse(message, userId)
chatWithAI(message, user) ==
    /\ chatPc \in {"idle", "done"}
    /\ pc \in {"idle", "done"}
    /\ nchat < MaxRequests
    /\ nchat' = nchat + 1
    /\ chatReq' = [message |-> message, user |-> user]
    /\ LET id == Prop(user, "user_id")
       IN  IF ~Truthy(message)
           THEN /\ chatRes' = <<Response(400, "Message is required")>>
                /\ agentCalls' = <<>>
                /\ chatPc' = "done"
                /\ UNCHANGED <<connector, request>>
           ELSE IF ~Truthy(id)
           THEN /\ chatRes' = <<Response(401, "Authentication required")>>
                /\ agentCalls' = <<>>
                /\ chatPc' = "done"
                /\ UNCHANGED <<connector, request>>
           ELSE /\ Enter(Param(id))
                /\ agentCalls' = <<[message |-> message, userId |-> Param(id)]>>
                /\ chatRes' = <<>>
                /\ chatPc' = "awaiting"
    /\ UNCHANGED <<server, upload>>

\* generateAIResponse has settled: res.json({ reply }), or the catch's 500
ChatResponds ==
    /\ chatPc = "awaiting"
    /\ pc = "done"
    /\ chatRes' = Append(chatRes, IF reply.kind = "exception"
                                  THEN Response(500, "Internal Server Error")
                                  ELSE Response(200, reply.text))
    /\ chatPc' = "done"
    /\ UNCHANGED <<nchat, chatReq, agentCalls, connector, request, server, upload>>

\* the service behind its controller: every request enters through chatWithAI
ChatNext ==
    \/ LoadNext
    \/ \E message \in ChatMessages, user \in ChatUsers : chatWithAI(message, user)
    \/ ChatResponds
    \/ DecisionFails
    \/ \E c \in Replies : DecisionReturns(c)
    \/ ExecutorReturns
    \/ ExecutorThrows
    \/ \E len \in ProviderLengths : McpReturns(len)
    \/ \E message \in ProviderErrors : McpThrows(message)
    \/ \E out \in SummaryOutcomes : SummaryReturns(out)
    \/ SummaryThrows
ChatSpec == Init /\ [][ChatNext]_vars

\* one request whose decision call returns any text of at most MaxLen pieces
ExtractNext ==
    \/ nreq = 0 /\ StartRequest(LoadCall)
    \/ pc = "decision" /\ \E text \in Texts : DecisionReturns(TextReply(text))
    \/ ExecutorReturns
    \/ ExecutorThrows
    \/ \E out \in SummaryOutcomes : SummaryReturns(out)
    \/ SummaryThrows
ExtractSpec == Init /\ [][ExtractNext]_vars


(***************************************************************************)
(* The MCP server (src/unnamed/part_004): getAuthenticatedUser and the      *)
(* tools import_routes_bulk and cancel_booking. One tool call is followed   *)
(* from its entry to its return; every await is a step.                     *)
(***************************************************************************)
\* Math.floor(Date.now() / 1000) at the time of the call
NowSeconds == 100

\* apiKey.split('_'): the parts between the underscores
RECURSIVE Split(_, _)
Split(cs, part) ==
    IF cs = <<>> THEN <<part>>
    ELSE IF Head(cs) = "_" THEN <<part>> \o Split(Tail(cs), <<>>)
         ELSE Split(Tail(cs), Append(part, Head(cs)))

\* TRAVEL_API_KEY: unset, empty, or a key
KeyOperator == <<"t", "p", "_", "2", "0", "0", "_", "o", "p">>
KeyAdmin == <<"t", "p", "_", "2", "0", "0", "_", "a", "d">>
KeyPassenger == <<"t", "p", "_", "1", "0", "0", "_", "p", "a">>
KeyExpired == <<"t", "p", "_", "5", "0", "_", "o", "p">>
KeyUnknown == <<"t", "p", "_", "2", "0", "0", "_", "z", "z">>
KeyLegacy == <<"l", "e", "g", "a", "c", "y">>
ApiKeys ==
    {Undef, Str(<<>>), Str(KeyOperator), Str(KeyAdmin), Str(KeyPassenger),
     Str(KeyExpired), Str(KeyUnknown), Str(KeyLegacy)}

\* the users table; the expired key is still stored with its user
User(key, id, role) == [api_key |-> key, user_id |-> id, role |-> role]
NoUser == User(<<>>, 0, "none")
UsersTable ==
    {User(KeyOperator, 7, "operator"), User(KeyAdmin, 9, "admin"),
     User(KeyPassenger, 8, "passenger"), User(KeyExpired, 6, "operator"),
     User(KeyLegacy, 5, "passenger")}
\* the bookings table: booking_id -> passenger_id
Booking(id, passenger) == [booking_id |-> id, passenger_id |-> passenger]
BookingsTable == {Booking(11, Num(8)), Booking(12, Num(7)), Booking(13, Null)}
BookingIds == {11, 12, 99}

\* the batches import_routes_bulk is called with: each route with its stops
Route(name, stops) == [route_name |-> name, stops |-> stops]
Batches ==
    { <<>>,
      <<Route("Chennai-Coimbatore", <<"Salem", "Erode">>)>>,
      <<Route("Chennai-Madurai", <<"Trichy">>), Route("Madurai-Salem", <<>>)>>,
      <<Route("Chennai-Salem", <<"Vellore", "Krishnagiri">>), Route("Salem-Erode", <<"Sankari">>)>> }

\* the INSERT statements of a batch in the order the two loops execute them
RouteRow(name, operator) == [table |-> "route", route_name |-> name, owner |-> operator]
StopRow(path, name) == [table |-> "stops", path_id |-> path, stop_name |-> name]
RECURSIVE Inserts(_, _)
Inserts(routes, operator) ==
    IF routes = <<>> THEN <<>>
    ELSE <<RouteRow(Head(routes).route_name, operator)>>
             \o [k \in 1..Len(Head(routes).stops) |->
                    StopRow(Head(routes).route_name, Head(routes).stops[k])]
             \o Inserts(Tail(routes), operator)

\* if (!apiKey) throw
KeyMissing(key) == ~Truthy(key)
\* parts.length === 3 && !isNaN(expiryTimestamp) && currentTimestamp > expiryTimestamp
KeyExpiredNow(key) ==
    LET parts == Split(key.s, <<>>)
    IN  /\ Len(parts) = 3
        /\ ~isNaN(parseInt(Str(parts[2])))
        /\ NowSeconds > parseInt(Str(parts[2])).val
\* SELECT * FROM users WHERE api_key = ?
RowsFor(key) == {u \in UsersTable : u.api_key = key.s}

\* the text of the catch of each tool
CatchText(tool) == IF tool = "import_routes_bulk" THEN "Import Failed" ELSE "Cancellation Error"
\* the handler returns text
Returns(text) ==
    /\ srvOut' = Append(srvOut, text)
    /\ srvPc' = "done"
others == <<connector, request, chat, upload>>

\* a tool is called: the handler runs getAuthenticatedUser up to its query
ToolCalled(tool, key, args) ==
    /\ srvPc = "idle"
    /\ srvCall' = [tool |-> tool, key |-> key, args |-> args]
    /\ IF KeyMissing(key) \/ KeyExpiredNow(key)
       THEN Returns(CatchText(tool))
       ELSE srvPc' = "auth" /\ UNCHANGED srvOut
    /\ UNCHANGED <<srvUser, connection, pending, committed, cancelTicketCalls, others>>

\* the users query answers: no row throws; otherwise the tool goes on with rows[0]
AuthReturns ==
    /\ srvPc = "auth"
    /\ IF RowsFor(srvCall.key) = {}
       THEN Returns(CatchText(srvCall.tool)) /\ UNCHANGED srvUser
       ELSE LET user == CHOOSE u \in RowsFor(srvCall.key) : TRUE
            IN  /\ srvUser' = user
                /\ IF srvCall.tool = "import_routes_bulk"
                   THEN IF user.role # "operator" /\ user.role # "admin"
                        THEN Returns("Permission Denied")
                        ELSE srvPc' = "getConnection" /\ UNCHANGED srvOut
                   ELSE srvPc' = "check" /\ UNCHANGED srvOut
    /\ UNCHANGED <<srvCall, connection, pending, committed, cancelTicketCalls, others>>

\* the users query fails
AuthThrows ==
    /\ srvPc = "auth"
    /\ Returns(CatchText(srvCall.tool))
    /\ UNCHANGED <<srvCall, srvUser, connection, pending, committed, cancelTicketCalls, others>>

\* pool.getConnection() resolves: await connection.beginTransaction()
GetConnectionResolves ==
    /\ srvPc = "getConnection"
    /\ connection' = "held"
    /\ srvPc' = "begin"
    /\ UNCHANGED <<srvCall, srvUser, srvOut, pending, committed, cancelTicketCalls, others>>

\* pool.getConnection() rejects: outside the inner try
GetConnectionRejects ==
    /\ srvPc = "getConnection"
    /\ Returns(CatchText(srvCall.tool))
    /\ UNCHANGED <<srvCall, srvUser, connection, pending, committed, cancelTicketCalls, others>>

\* what follows the last statement executed: the next INSERT, or the commit
AfterStatement(done) ==
    IF Len(done) < Len(Inserts(srvCall.args, srvUser.user_id)) THEN "insert" ELSE "commit"

BeginResolves ==
    /\ srvPc = "begin"
    /\ srvPc' = AfterStatement(pending)
    /\ UNCHANGED <<srvCall, srvUser, srvOut, connection, pending, committed, cancelTicketCalls, others>>

\* a statement of the transaction throws: catch (dbError) { await connection.rollback()
StatementThrows ==
    /\ srvPc \in {"begin", "insert", "commit"}
    /\ srvPc' = "rollback"
    /\ UNCHANGED <<srvCall, srvUser, srvOut, connection, pending, committed, cancelTicketCalls, others>>

\* an INSERT on a connection in autocommit mode
InsertResolvesAutocommit ==
    /\ srvPc = "insert"
    /\ LET row == Inserts(srvCall.args, srvUser.user_id)[Len(pending) + 1]
       IN  /\ pending' = Append(pending, row)
           /\ committed' = Append(committed, row)
           /\ srvPc' = AfterStatement(Append(pending, row))
    /\ UNCHANGED <<srvCall, srvUser, srvOut, connection, cancelTicketCalls, others>>

\* connection.execute(INSERT ...) resolves inside the transaction
InsertResolves ==
    /\ srvPc = "insert"
    /\ LET row == Inserts(srvCall.args, srvUser.user_id)[Len(pending) + 1]
       IN  /\ pending' = Append(pending, row)
           /\ srvPc' = AfterStatement(Append(pending, row))
    /\ UNCHANGED <<srvCall, srvUser, srvOut, connection, committed, cancelTicketCalls, others>>

\* connection.commit() resolves; return the success text; finally release
CommitResolves ==
    /\ srvPc = "commit"
    /\ committed' = committed \o pending
    /\ pending' = <<>>
    /\ connection' = "released"
    /\ Returns("Successfully imported")
    /\ UNCHANGED <<srvCall, srvUser, cancelTicketCalls, others>>

\* connection.rollback() settles (a rollback that fails has lost the connection,
\* and the database drops the open transaction); throw; finally release; the
\* outer catch returns the failure text
RollbackSettles ==
    /\ srvPc = "rollback"
    /\ pending' = <<>>
    /\ connection' = "released"
    /\ Returns(CatchText(srvCall.tool))
    /\ UNCHANGED <<srvCall, srvUser, committed, cancelTicketCalls, others>>

\* the booking row whose id is the argument
RowsOfBooking(id) == {b \in BookingsTable : b.booking_id = id}

\* an ownership test that only looks for the booking
CheckReturnsAnyOwner ==
    /\ srvPc = "check"
    /\ IF RowsOfBooking(srvCall.args) = {}
       THEN Returns("Booking not found.") /\ UNCHANGED cancelTicketCalls
       ELSE /\ cancelTicketCalls' = Append(cancelTicketCalls, srvCall.args)
            /\ srvPc' = "cancelTicket"
            /\ UNCHANGED srvOut
    /\ UNCHANGED <<srvCall, srvUser, connection, pending, committed, others>>

\* SELECT passenger_id FROM bookings WHERE booking_id = ? answers
CheckReturns ==
    /\ srvPc = "check"
    /\ IF RowsOfBooking(srvCall.args) = {}
       THEN Returns("Booking not found.") /\ UNCHANGED cancelTicketCalls
       ELSE IF (CHOOSE b \in RowsOfBooking(srvCall.args) : TRUE).passenger_id # Num(srvUser.user_id)
       THEN Returns("Access denied.") /\ UNCHANGED cancelTicketCalls
       ELSE /\ cancelTicketCalls' = Append(cancelTicketCalls, srvCall.args)
            /\ srvPc' = "cancelTicket"
            /\ UNCHANGED srvOut
    /\ UNCHANGED <<srvCall, srvUser, connection, pending, committed, others>>

\* the ownership query fails
CheckThrows ==
    /\ srvPc = "check"
    /\ Returns(CatchText(srvCall.tool))
    /\ UNCHANGED <<srvCall, srvUser, connection, pending, committed, cancelTicketCalls, others>>

\* bookingTools.cancelTicket(bookingId) returns its text, or throws
CancelTicketSettles(threw) ==
    /\ srvPc = "cancelTicket"
    /\ Returns(IF threw THEN CatchText(srvCall.tool) ELSE "cancelTicket result")
    /\ UNCHANGED <<srvCall, srvUser, connection, pending, committed, cancelTicketCalls, others>>

ServerNext ==
    \/ \E key \in ApiKeys, batch \in Batches : ToolCalled("import_routes_bulk", key, batch)
    \/ \E key \in ApiKeys, id \in BookingIds : ToolCalled("cancel_booking", key, id)
    \/ AuthReturns
    \/ AuthThrows
    \/ GetConnectionResolves
    \/ GetConnectionRejects
    \/ BeginResolves
    \/ StatementThrows
    \/ InsertResolves
    \/ CommitResolves
    \/ RollbackSettles
    \/ CheckReturns
    \/ CheckThrows
    \/ \E threw \in BOOLEAN : CancelTicketSettles(threw)
ServerSpec == Init /\ [][ServerNext]_vars


(***************************************************************************)
(* uploadRouteCSV (src/backend/src/controllers/uploadController.ts, lines   *)
(* 20-122). The handler returns once the read stream is set up; the rest    *)
(* runs in the stream's 'end' listener, an async function nobody awaits.    *)
(***************************************************************************)
\* authReq.user?.user_id of the uploading operator
OperatorId == 7
CsvRow(route, stop) == [route_name |-> route, stop_name |-> stop]
\* req.file: none, or a CSV file with these rows (a row without route_name is skipped)
NoFile == [uploaded |-> FALSE, rows |-> <<>>]
File(rows) == [uploaded |-> TRUE, rows |-> rows]
CsvRows ==
    { <<>>,
      <<CsvRow("Chennai-Salem", "Vellore"), CsvRow("Chennai-Salem", "Krishnagiri")>>,
      <<CsvRow("Chennai-Salem", "Vellore"), CsvRow("Salem-Erode", "Sankari"),
        CsvRow("Chennai-Salem", "Krishnagiri")>>,
      <<CsvRow("Chennai-Salem", "Vellore"), CsvRow("", "Nowhere"), CsvRow("Salem-Erode", "Sankari")>>,
      <<CsvRow("Chennai-Madurai", "Trichy")>>,
      <<CsvRow("", "Nowhere")>>,
      <<CsvRow("Chennai-Madurai", "Trichy"), CsvRow("Madurai-Salem", "Dindigul"),
        CsvRow("Madurai-Salem", "Karur"), CsvRow("Chennai-Madurai", "Villupuram")>> }

\* the keys of routesMap in the order they were created
RECURSIVE RouteNames(_, _)
RouteNames(rows, seen) ==
    IF rows = <<>> THEN <<>>
    ELSE IF Head(rows).route_name = "" \/ Head(rows).route_name \in seen
         THEN RouteNames(Tail(rows), seen)
         ELSE <<Head(rows).route_name>> \o RouteNames(Tail(rows), seen \cup {Head(rows).route_name})
\* routesMap[routeName]: the rows of the route
RECURSIVE RowsOfRoute(_, _)
RowsOfRoute(rows, name) ==
    IF rows = <<>> THEN <<>>
    ELSE (IF Head(rows).route_name = name THEN <<Head(rows)>> ELSE <<>>) \o RowsOfRoute(Tail(rows), name)
\* the INSERT statements of a file: per route the route, then a stop per row
RECURSIVE InsertsOfRoutes(_, _)
InsertsOfRoutes(names, rows) ==
    IF names = <<>> THEN <<>>
    ELSE <<RouteRow(Head(names), OperatorId)>>
             \o [k \in 1..Len(RowsOfRoute(rows, Head(names))) |->
                    StopRow(Head(names), RowsOfRoute(rows, Head(names))[k].stop_name)]
             \o InsertsOfRoutes(Tail(names), rows)
UploadInserts(rows) == InsertsOfRoutes(RouteNames(rows, {}), rows)

serverLocals == <<srvPc, srvCall, srvUser, srvOut, cancelTicketCalls>>
outside == <<connector, request, chat, serverLocals>>

\* entry: no file answers 400; otherwise the stream is set up and the handler returns
UploadReceived(file) ==
    /\ upPc = "idle"
    /\ IF file = NoFile
       THEN /\ upRes' = <<Response(400, "No CSV file uploaded.")>>
            /\ upPc' = "done"
            /\ UNCHANGED <<upRows, upFile>>
       ELSE /\ upRows' = file.rows
            /\ upFile' = "stored"
            /\ upPc' = "reading"
            /\ UNCHANGED upRes
    /\ UNCHANGED <<connection, pending, committed, outside>>

\* 'end': await pool.getConnection()
StreamEnds ==
    /\ upPc = "reading"
    /\ upPc' = "getConnection"
    /\ UNCHANGED <<upRows, upFile, upRes, connection, pending, committed, outside>>

\* the stream emits 'error': no listener is registered for it
StreamFails ==
    /\ upPc = "reading"
    /\ upPc' = "abandoned"
    /\ UNCHANGED <<upRows, upFile, upRes, connection, pending, committed, outside>>

\* getConnection resolves: await connection.beginTransaction()
UploadConnects ==
    /\ upPc = "getConnection"
    /\ connection' = "held"
    /\ upPc' = "begin"
    /\ UNCHANGED <<upRows, upFile, upRes, pending, committed, outside>>

\* getConnection rejects before the try is entered: the listener's promise
\* rejects and nobody handles it
UploadConnectFails ==
    /\ upPc = "getConnection"
    /\ upPc' = "abandoned"
    /\ UNCHANGED <<upRows, upFile, upRes, connection, pending, committed, outside>>

UploadAfter(done) == IF Len(done) < Len(UploadInserts(upRows)) THEN "insert" ELSE "commit"

UploadBegins ==
    /\ upPc = "begin"
    /\ upPc' = UploadAfter(pending)
    /\ UNCHANGED <<upRows, upFile, upRes, connection, pending, committed, outside>>

UploadInserts1 ==
    /\ upPc = "insert"
    /\ pending' = Append(pending, UploadInserts(upRows)[Len(pending) + 1])
    /\ upPc' = UploadAfter(Append(pending, UploadInserts(upRows)[Len(pending) + 1]))
    /\ UNCHANGED <<upRows, upFile, upRes, connection, committed, outside>>

\* a statement of the transaction throws: catch (error) { await connection.rollback()
UploadStatementThrows ==
    /\ upPc \in {"begin", "insert", "commit"}
    /\ upPc' = "rollback"
    /\ UNCHANGED <<upRows, upFile, upRes, connection, pending, committed, outside>>

\* commit resolves; fs.unlinkSync(file.path) deletes the file, 200, finally
\* release; or unlinkSync throws into the catch: await connection.rollback()
UploadCommits(unlinked) ==
    /\ upPc = "commit"
    /\ committed' = committed \o pending
    /\ pending' = <<>>
    /\ IF unlinked
       THEN /\ upFile' = "deleted"
            /\ upRes' = Append(upRes, Response(200, "Successfully uploaded"))
            /\ connection' = "released"
            /\ upPc' = "done"
       ELSE /\ upPc' = "rollback"
            /\ UNCHANGED <<upFile, upRes, connection>>
    /\ UNCHANGED <<upRows, outside>>

\* rollback resolves; the file is deleted if it is there (or unlinkSync throws
\* again and the listener is left by the exception); 500; finally release
UploadRollsBack(unlinked) ==
    /\ upPc = "rollback"
    /\ pending' = <<>>
    /\ connection' = "released"
    /\ IF unlinked
       THEN /\ upFile' = "deleted"
            /\ upRes' = Append(upRes, Response(500, "Failed to process CSV"))
            /\ upPc' = "done"
       ELSE /\ upPc' = "abandoned"
            /\ UNCHANGED <<upFile, upRes>>
    /\ UNCHANGED <<upRows, committed, outside>>

\* rollback itself throws: finally release, and the exception leaves the listener
UploadRollbackThrows ==
    /\ upPc = "rollback"
    /\ pending' = <<>>
    /\ connection' = "released"
    /\ upPc' = "abandoned"
    /\ UNCHANGED <<upRows, upFile, upRes, committed, outside>>

UploadNext ==
    \/ \E file \in {NoFile} \cup {File(rows) : rows \in CsvRows} : UploadReceived(file)
    \/ StreamEnds
    \/ StreamFails
    \/ UploadConnects
    \/ UploadConnectFails
    \/ UploadBegins
    \/ UploadInserts1
    \/ UploadStatementThrows
    \/ \E unlinked \in BOOLEAN : UploadCommits(unlinked)
    \/ \E unlinked \in BOOLEAN : UploadRollsBack(unlinked)
    \/ UploadRollbackThrows
UploadSpec == Init /\ [][UploadNext]_vars


(***************************************************************************)
(* Properties.                                                              *)
(***************************************************************************)
\* the tool call extractJson finds in a reply that holds one
ToolCallOf(c) == c.blocks[Len(c.blocks)]
ToolNameOf(c) == Prop(ToolCallOf(c), "tool").s[1]
\* the current request got a reply from the endpoint it called last
Answered == Len(failed) < Len(calls)

\* C1: generateAIResponse never fails: whatever the endpoints, the connector
\* and the tool executors do, a finished request has returned a defined text.
C1_AlwaysReturnsText == pc = "done" => reply.kind = "text"

\* C2: when the decision call fails on every endpoint, the request returns
\* exactly the apology, having invoked no tool executor and no summary call.
C2_AllEndpointsFail ==
    (pc = "done" /\ Len(failed) = NModels)
        => (reply = ReturnsText(Apology) /\ execs = <<>> /\ summaries = <<>>)
C2_Witness == pc = "done" /\ Len(failed) = NModels /\ Len(calls) = NModels

\* C3: when endpoints 1..k-1 fail and endpoint k gives a plain reply, the
\* request returns endpoint k's text verbatim and calls no endpoint after k.
C3_FallbackPlainReply ==
    (pc = "done" /\ Answered /\ content \in PlainReplies)
        => /\ reply = ReturnsText(content.raw)
           /\ Len(calls) = Len(failed) + 1
           /\ calls[Len(calls)].model = Len(failed) + 1
           /\ execs = <<>>
           /\ summaries = <<>>
C3_Witness ==
    /\ pc = "done" /\ Answered /\ content \in PlainReplies
    /\ Len(failed) = 2 /\ content.raw = "Hello! How can I help you today?"

\* C4: within a request the decision calls go to the endpoints in list order,
\* endpoint i+1 only after endpoint i failed, each endpoint at most once, and
\* every request starts at the first endpoint whatever earlier requests did.
C4_EndpointOrder ==
    pc # "idle"
        => /\ Len(calls) \in 1..NModels
           /\ \A i \in 1..Len(calls) : calls[i].model = i
           /\ \A i \in 1..Len(failed) : failed[i] = i
           /\ Len(failed) \in {Len(calls) - 1, Len(calls)}
           /\ Len(failed) = Len(calls) => (Len(calls) = NModels /\ pc = "done")
           /\ pc = "decision" => (Answered /\ model = Len(calls))
C4_Witness == nreq = 2 /\ pc = "decision" /\ Len(calls) = 2 /\ failed = <<1>>

\* C5: a request invokes at most one tool executor (a built-in booking tool
\* or the provider's callTool), over all endpoint fallbacks and failure paths.
C5_AtMostOneExecution == Len(execs) <= 1
C5_Witness ==
    /\ pc = "done" /\ Len(execs) = 1 /\ Len(failed) = 1
    /\ summaries = <<>> /\ reply = ReturnsText(content.raw)

\* replies that call get_booking_details or cancel_booking with a bookingId that is no number
C6_BadIdReplies ==
    {c \in BookingIdCalls :
        Prop(Prop(ToolCallOf(c), "args"), "bookingId") \in {Undef, Null, Str(<<"a", "b", "c">>)}}
\* C6: a valid get_booking_details or cancel_booking call whose bookingId is
\* not a number ("abc", null, missing) returns the fixed "I need a valid
\* booking ID number" message at once: no executor, no summary call.
C6_BadBookingId ==
    content \in C6_BadIdReplies
        => /\ pc = "done"
           /\ reply = ReturnsText(IF ToolNameOf(content) = "get_booking_details"
                                  THEN NeedIdCheck ELSE NeedIdCancel)
           /\ execs = <<>>
           /\ summaries = <<>>
C6_Witness ==
    /\ content \in C6_BadIdReplies /\ pc = "done"
    /\ ToolNameOf(content) = "cancel_booking" /\ reply = ReturnsText(NeedIdCancel)

\* C7: no built-in executor is ever invoked with a malformed (non-numeric)
\* value in a numeric identifier field: bookingId, tripId, pickupId, dropId,
\* amount are all validated before the tool is invoked.
C7_NumericArgsValidated ==
    \A i \in 1..Len(execs) :
        execs[i].fn \in {"getBookingDetails", "cancelTicket", "bookTicket"}
            => \A j \in 1..Len(execs[i].args) : execs[i].args[j].t = "num"

\* a reply naming no built-in tool; a name the connector can dispatch in the current state
C8_External(c) == c \in OtherToolCalls
C8_Dispatchable(name) ==
    mcpClient # 0 /\ name \in {mcpToolsOrchestration[i] : i \in 1..Len(mcpToolsOrchestration)}
\* C8: a valid tool call whose name is neither a built-in nor an external tool
\* that can be dispatched now returns the fixed "I couldn't understand" text:
\* no executor, no summary call, no further endpoint.
C8_UnknownTool ==
    /\ [][(pc = "decision" /\ C8_External(content') /\ ~C8_Dispatchable(ToolNameOf(content')))
            => /\ pc' = "done"
               /\ reply' = ReturnsText(UnknownTool)
               /\ execs' = <<>> /\ summaries' = <<>>
               /\ calls' = calls /\ failed' = failed]_vars
    /\ []((pc = "done" /\ reply = ReturnsText(UnknownTool))
            => (execs = <<>> /\ summaries = <<>> /\ Answered))
C8_Witness ==
    /\ pc = "done" /\ reply = ReturnsText(UnknownTool)
    /\ ToolNameOf(content) = "fly_to_moon"
    /\ mcpClient # 0 /\ Len(mcpToolsOrchestration) > 0

\* C9: when connectToMcpServer is entered while another call's handshake is
\* in flight, no second subprocess is launched: only one attempt is made.
C9_SingleFlight == launchedBy \cap sawInflight = {}

\* C10: a call of connectToMcpServer made after a previous attempt has
\* settled (succeeded, failed or timed out) launches nothing and dials nothing.
C10_NoRedial == launchedBy \cap sawSettled = {}

\* the blocks clean[i..j] that are JSON objects with a "tool" member
ToolObjectsIn(clean) ==
    {b \in {SubSeq(clean, i, j) : i, j \in 1..Len(clean)} :
        JsonParse(b).t = "obj" /\ "tool" \in DOMAIN JsonParse(b).o}
\* the endpoint has answered the decision call
Decided == pc \notin {"idle", "decision"}

\* C11: when the raw model output holds exactly one JSON object with a
\* non-empty tool field, among any prose (brace characters included) and
\* fence markers, extractJson returns the text of exactly that object.
C11_ExtractsTheObject ==
    (Decided /\ Cardinality(ToolObjectsIn(Clean(content.raw))) = 1)
        => ExtractedText(content) \in ToolObjectsIn(Clean(content.raw))

\* C12: when the raw model output holds no balanced object with a tool field,
\* extractJson returns null and generateAIResponse returns the raw text
\* verbatim: no tool executor runs and no second model call is made.
C12_NoObjectPlainReply ==
    (Decided /\ ToolObjectsIn(Clean(content.raw)) = {})
        => /\ extractJson(content) = 0
           /\ pc = "done"
           /\ reply = ReturnsText(content.raw)
           /\ execs = <<>> /\ summaries = <<>> /\ Len(calls) = 1
C12_Witness ==
    /\ pc = "done"
    /\ content.raw = <<Word, LBrace, BraceMember, LBrace, RBrace, RBrace>>
    /\ reply = ReturnsText(content.raw)

\* the tool text of the summary call just issued
FedToSummary == summaries'[Len(summaries')].toolResult

\* C13: a provider text longer than 4000 characters reaches the summary call
\* as its first 4000 characters followed by the truncation marker; a text of
\* at most 4000 characters reaches it unchanged.
C13_TruncatedAtThreshold ==
    [][\A len \in ProviderLengths :
          McpReturns(len)
              => /\ FedToSummary.words = <<"provider output">>
                 /\ FedToSummary.len = (IF len > TruncateAt THEN TruncateAt ELSE len)
                 /\ FedToSummary.marker = (len > TruncateAt)
                 /\ toolResult' = FedToSummary]_vars
C13_Witness ==
    /\ pc = "summary" /\ Len(summaries) = 1
    /\ toolResult.marker /\ toolResult.len = TruncateAt
    /\ summaries[1].toolResult = toolResult

\* C14: the tool text fed to the summary call is never longer than the text
\* the provider returned, also for a text just above the threshold.
C14_NeverLonger ==
    [][\A len \in ProviderLengths :
          McpReturns(len) => ResultLength(FedToSummary) <= len]_vars

\* C15: a booking lookup or cancellation is scoped to the caller: the caller's
\* id is handed to the executor next to the booking id, so that a request of
\* one user cannot act on a booking of another.
C15_CallerScoped ==
    \A i \in 1..Len(execs) :
        execs[i].fn \in {"getBookingDetails", "cancelTicket"}
            => \E j \in 2..Len(execs[i].args) : execs[i].args[j] = Num(userId)

\* C16: every request eventually returns a reply, also when an endpoint never
\* answers a call: the attempt is given up and the loop moves on.
C16_EventuallyReplies == (pc = "decision") ~> (pc = "done")

\* the names in a list of tools
Names(tools) == {tools[i] : i \in 1..Len(tools)}
\* every tool the system instruction lists: the built-ins, then the external ones
MergedTools == BuiltinTools \o mcpToolsOrchestration

\* C17: at every instant the merged tool set (the four built-ins and the
\* current external list, discovered or fallback) has no two entries of the
\* same name.
C17_UniqueNames ==
    \A i, j \in 1..Len(MergedTools) : MergedTools[i] = MergedTools[j] => i = j

\* the connector holds a client and the fallback list: discovery failed
Degraded ==
    /\ mcpClient # 0 /\ cpc[LoadCall] = "done"
    /\ mcpToolsOrchestration = <<"add-account", "create-event", "list-events">>
\* C18: when the handshake succeeds and listTools fails the connector ends in
\* the Degraded state with the fallback list add-account, create-event,
\* list-events; from then on the list and the client never change and neither
\* the handshake nor the discovery is tried again.
C18_DegradedIsFinal ==
    /\ [][(cpc[LoadCall] = "listing" /\ ListToolsRejects(LoadCall)) => Degraded']_vars
    /\ [][Degraded => (Degraded' /\ UNCHANGED connector)]_vars
C18_Witness == Degraded /\ nreq = MaxRequests /\ pc = "done"

\* C19: when the timeout fires before the handshake completes the call
\* settles at once with no client and no external tool, and the handshake
\* completing later changes nothing of the connector's client, list or result.
C19_TimeoutWins ==
    /\ [][ConnectionTimesOut(LoadCall)
            => /\ cpc'[LoadCall] = "done" /\ returned'[LoadCall] = "undefined"
               /\ mcpClient' = 0 /\ mcpToolsOrchestration' = <<>>]_vars
    /\ [][(cpc[LoadCall] = "done" /\ mcpClient = 0)
            => /\ mcpClient' = 0 /\ mcpToolsOrchestration' = <<>>
               /\ cpc' = cpc /\ returned' = returned /\ launchedBy' = launchedBy]_vars
C19_Witness ==
    /\ LoadCall \in late /\ cpc[LoadCall] = "done" /\ mcpClient = 0
    /\ pc = "done" /\ reply = ReturnsText(UnknownTool)

\* the lifecycle state of the connector as the module-load call leaves it
ConnectionState ==
    CASE cpc[LoadCall] \in {"handshake", "listing"} -> "Connecting"
      [] cpc[LoadCall] = "done" /\ mcpClient = 0 -> "Unconnected"
      [] Degraded -> "Degraded"
      [] OTHER -> "Connected"
\* this step hands a call to the provider
IssuesCallTool ==
    /\ execs' # execs /\ execs' # <<>>
    /\ execs'[Len(execs')].fn = "callTool"
CalledName == execs'[Len(execs')].args[1].s[1]

\* C20 as stated: callTool is issued on the provider only in the Connected
\* state, never while Unconnected, Connecting or Degraded.
C20_OnlyWhenConnected == [][IssuesCallTool => ConnectionState = "Connected"]_vars

\* C20: callTool is issued only when a client exists and the name is in the
\* current external list (discovered or fallback) and is no built-in name; a
\* built-in name always goes to the built-in executor; a valid call of a listed
\* external tool is always taken to the provider.
C20_ExternalDispatch ==
    /\ [][IssuesCallTool
            => /\ pc = "decision" /\ pc' = "mcp"
               /\ mcpClient # 0
               /\ CalledName \in Names(mcpToolsOrchestration) \ Names(BuiltinTools)]_vars
    /\ [][(pc = "decision" /\ C8_External(content') /\ C8_Dispatchable(ToolNameOf(content')))
            => (IssuesCallTool \/ toolResult' = McpFailure(ToolNameOf(content'), TypeErrorMessage))]_vars
C20_Witness ==
    /\ Degraded /\ pc = "mcp"
    /\ execs = <<Invoke("callTool", <<Text("list-events"), execs[1].args[2]>>)>>

\* C21: when the summary call fails on an endpoint the summary is retried on
\* the next endpoint of the list, and the apology is returned only when the
\* summary has failed on every endpoint.
C21_SummaryFallsBack ==
    [][(pc = "summary" /\ SummaryThrows)
          => IF model < NModels
             THEN /\ pc' = "summary"
                  /\ Len(summaries') = Len(summaries) + 1
                  /\ summaries'[Len(summaries')].model = model + 1
             ELSE reply' = ReturnsText(Apology)]_vars

\* C22: when a built-in executor throws, the failure becomes a tool result
\* text and the request goes on to the summary call, whose text is the reply.
C22_ExecutorFailureSummarised ==
    [][(pc = "builtin" /\ ExecutorThrows)
          => /\ pc' = "summary"
             /\ Len(summaries') = 1
             /\ toolResult'.words # <<>>]_vars

\* C23: when callTool on the provider (or the handling of its result) throws,
\* the failure is caught and becomes a non-empty tool result text, the summary
\* call is issued with that text on the same endpoint, and no other endpoint
\* is tried.
C23_ProviderFailureSummarised ==
    [][\A message \in ProviderErrors :
          (pc = "mcp" /\ McpThrows(message))
              => /\ pc' = "summary"
                 /\ toolResult'.words # <<>>
                 /\ \A i \in 1..Len(toolResult'.words) : toolResult'.words[i] # ""
                 /\ summaries' = Append(summaries, SummaryCall(model, extractJson(content), toolResult'))
                 /\ UNCHANGED <<model, calls, failed, execs, reply>>]_vars
C23_Witness ==
    /\ pc = "summary" /\ Len(execs) = 1 /\ execs[1].fn = "callTool"
    /\ toolResult.words = <<OperationFailed, "socket hang up">>
    /\ summaries[1].toolResult = toolResult /\ failed = <<>>

\* the error text names the provider's domain: the calendar or its credentials
MentionsDomain(message) == message \in {"No authenticated accounts", "calendar quota exceeded"}
\* C24: a provider failure whose error names the calendar or its credentials
\* yields the fixed "isn't fully configured" text and any other failure the
\* generic text carrying the error, for every external tool name.
C24_MessageByFailure ==
    [][\A message \in ProviderErrors :
          (pc = "mcp" /\ McpThrows(message))
              => toolResult'.words = (IF MentionsDomain(message) THEN <<NotConfigured>>
                                      ELSE <<OperationFailed, message>>)]_vars

BalancedToolBlocks(clean) ==
    {b \in (1..Len(clean)) \X (1..Len(clean)) :
        /\ b[1] <= b[2]
        /\ Cardinality({k \in b[1]..b[2] : IsClosing(clean[k])})
               = Cardinality({k \in b[1]..b[2] : IsOpening(clean[k])})
        /\ JsonParse(SubSeq(clean, b[1], b[2])).t = "obj"
        /\ "tool" \in DOMAIN JsonParse(SubSeq(clean, b[1], b[2])).o}
\* of those, the one that ends last and, among the ones ending there, begins last
LastToolBlock(clean) ==
    CHOOSE b \in BalancedToolBlocks(clean) :
        \A c \in BalancedToolBlocks(clean) :
            c[2] < b[2] \/ (c[2] = b[2] /\ c[1] <= b[1])

C27_SummaryAfterOneExecution ==
    /\ Len(summaries) <= 1
    /\ summaries # <<>>
           => /\ Len(execs) = 1
              /\ extractJson(content) # 0
              /\ summaries[1].model = model
              /\ summaries[1].assistant = extractJson(content)
              /\ summaries[1].toolResult = toolResult
    /\ (pc = "done" /\ Answered
            /\ reply.text \in {content.raw, NeedIdCheck, NeedIdCancel, UnknownTool}
            /\ execs = <<>>)
           => (summaries = <<>> /\ Len(calls) = Len(failed) + 1)

C29_NormalizationCompletes == [][pc = "decision" => pc' # "summary"]_vars

\* the args of the call in the reply just received, its nested event, and the
\* args handed to callTool
CallArgs == Prop(ToolCallOf(content'), "args").o
NestedEvent == Get(CallArgs, "event")
HandedArgs == execs'[Len(execs')].args[2].o
\* a create-event call with a nested event object reaches callTool in this step
UnwrapsEvent ==
    /\ pc = "decision" /\ IssuesCallTool /\ CalledName = "create-event"
    /\ NestedEvent.t = "obj"
UnwrappedFields == {"summary", "description", "start", "end"}

HandedTimestamps ==
    IF CalledName = "create-event"
    THEN {Get(HandedArgs, "start"), Get(HandedArgs, "end")}
    ELSE {Prop(Get(HandedArgs, "event"), "start"), Prop(Get(HandedArgs, "event"), "end")}

\* C31: for every external calendar tool that takes start and end, no
\* timestamp reaches the provider as a structured object: it has been reduced
\* to its dateTime (or else date) text, whether it stood at the top level, in
\* a nested event object or in flat args that the normalizer wraps.
C31_TimestampsCoerced ==
    [][(pc = "decision" /\ IssuesCallTool /\ CalledName \in {"create-event", "create_calendar_event"})
          => \A v \in HandedTimestamps : v.t # "obj"]_vars

\* C32: in every reachable state of the connector (between handshake success
\* and the end of discovery, and after any failure) a non-empty external tool
\* list implies that a client is set: no external tool is advertised without
\* a client to execute it.
C32_ToolsImplyClient == mcpToolsOrchestration # <<>> => mcpClient # 0
C32_Witness ==
    /\ mcpToolsOrchestration = FallbackTools /\ mcpClient # 0
    /\ \E c \in Callers : cpc[c] = "listing"
    /\ \E c \in Callers : c \in late

\* the manifest sent with the decision call that is being answered
OfferedTools == Names(calls[Len(calls)].manifest)
\* the reply just received is a valid call of a tool of that manifest
CallsOfferedTool ==
    /\ pc = "decision" /\ content' # content
    /\ extractJson(content') # 0
    /\ isValidToolCall(content'.blocks[extractJson(content')])
    /\ Prop(content'.blocks[extractJson(content')], "tool").s[1] \in OfferedTools

\* C33: under any interleaving of the connector's initialization with a
\* request, a valid call of an external tool that was listed in the manifest
\* of the request's decision call is accepted at dispatch (executed, or its
\* failure summarised) and never answered with the unknown-tool text; the
\* external list, once non-empty, is never cleared or replaced.
C33_OfferedToolAccepted ==
    /\ [][CallsOfferedTool
            => /\ pc' \in {"mcp", "builtin", "summary"}
               /\ reply' # ReturnsText(UnknownTool)]_vars
    /\ [][mcpToolsOrchestration # <<>> => UNCHANGED mcpToolsOrchestration]_vars
C33_Witness ==
    /\ pc = "mcp" /\ Len(calls) = 2
    /\ calls[1].manifest = <<>> /\ calls[2].manifest # <<>>
    /\ execs[1].args[1].s[1] \in Names(calls[2].manifest)

\* C34: when the summary call throws, the request returns the raw text of the
\* decision reply (the text holding the tool-call JSON), calls no further
\* endpoint and executes no tool again; within a request a further endpoint is
\* called only when the decision call of the current endpoint has failed.
C34_SummaryFailureReturnsRaw ==
    /\ [][(pc = "summary" /\ SummaryThrows)
            => /\ pc' = "done"
               /\ reply' = ReturnsText(content.raw)
               /\ extractJson(content) # 0
               /\ UNCHANGED <<model, calls, failed, execs, summaries>>]_vars
    /\ [][(calls' # calls /\ nreq' = nreq)
            => /\ pc = "decision"
               /\ failed' = Append(failed, model)
               /\ calls' = Append(calls, DecisionCall(model + 1))]_vars
C34_Witness ==
    /\ pc = "done" /\ Len(summaries) = 1 /\ Len(calls) = 1
    /\ Len(execs) = 1 /\ execs[1].fn = "bookTicket"
    /\ extractJson(content) # 0 /\ reply = ReturnsText(content.raw)

\* C35: argument normalization is idempotent wherever it completes: the args
\* handed to callTool, normalized once more for the same tool, come out as
\* they are (create-event, list-events and create_calendar_event alike).
C35_NormalizationIdempotent ==
    [][(pc = "decision" /\ IssuesCallTool)
          => NormalizeArgs(CalledName, HandedArgs) = [threw |-> FALSE, args |-> HandedArgs]]_vars

\* the authenticated user id of the HTTP request being served
AuthenticatedId == Prop(chatReq.user, "user_id")

\* C36: chatWithAI calls generateAIResponse only for a request with a
\* non-empty message and an authenticated user id, once, and with that id
\* (never the parameter's default of 1 in its place); any other request is
\* answered 400 or 401 and the agent is not called; a request that has been
\* served has received one response, and no request receives two.
C36_OnlyAuthenticatedReachAgent ==
    /\ Len(chatRes) <= 1 /\ Len(agentCalls) <= 1
    /\ chatPc = "done" => Len(chatRes) = 1
    /\ chatPc = "awaiting" => (chatRes = <<>> /\ Len(agentCalls) = 1)
    /\ agentCalls # <<>>
           => /\ Truthy(chatReq.message)
              /\ AuthenticatedId.t = "num"
              /\ agentCalls[1] = [message |-> chatReq.message, userId |-> AuthenticatedId.n]
              /\ userId = AuthenticatedId.n
    /\ (chatPc = "done" /\ ~Truthy(chatReq.message))
           => (chatRes[1].status = 400 /\ agentCalls = <<>>)
    /\ (chatPc = "done" /\ Truthy(chatReq.message) /\ ~Truthy(AuthenticatedId))
           => (chatRes[1].status = 401 /\ agentCalls = <<>>)
    /\ (chatPc = "done" /\ agentCalls # <<>>)
           => (chatRes[1] = Response(200, reply.text) /\ pc = "done")
C36_Witness ==
    /\ nchat = MaxRequests /\ chatPc = "done"
    /\ AuthenticatedId = Num(42) /\ userId = 42
    /\ agentCalls = <<[message |-> Text("Book a bus to Coimbatore"), userId |-> 42]>>
    /\ chatRes = <<Response(200, "Your trip is booked. Have a nice journey!")>>
    /\ Len(execs) = 1

\* the batch's statements, all of them
WholeBatch == Inserts(srvCall.args, srvUser.user_id)
ImportCall == srvCall.tool = "import_routes_bulk"

\* C37: import_routes_bulk is atomic: whatever statement fails, when the call
\* has returned either every route and stop of the batch is committed or none
\* is and nothing is left pending; the connection, once obtained, has been
\* released on every path; nothing is inserted unless the authenticated user
\* is an operator or an admin.
C37_ImportAtomic ==
    ImportCall
        => /\ srvPc = "done"
               => /\ committed \in {<<>>, WholeBatch}
                  /\ pending = <<>>
                  /\ connection # "held"
                  /\ (srvOut[1] = "Successfully imported") => committed = WholeBatch
                  /\ (srvOut[1] # "Successfully imported") => committed = <<>>
           /\ Len(srvOut) = (IF srvPc = "done" THEN 1 ELSE 0)
           /\ (pending # <<>> \/ committed # <<>> \/ connection # "none")
               => srvUser.role \in {"operator", "admin"}
C37_Witness ==
    /\ ImportCall /\ srvPc = "done" /\ srvOut = <<"Import Failed">>
    /\ connection = "released" /\ committed = <<>> /\ Len(WholeBatch) = 5
    /\ srvUser.role = "operator"

CancelCall == srvCall.tool = "cancel_booking"
\* the API key authenticates: present, not expired, found in the users table
Authenticates(key) == ~KeyMissing(key) /\ ~KeyExpiredNow(key) /\ RowsFor(key) # {}
\* the booking exists and its passenger is the user the key belongs to
OwnsBooking(key, id) ==
    \E b \in BookingsTable, u \in UsersTable :
        b.booking_id = id /\ u.api_key = key.s /\ b.passenger_id = Num(u.user_id)

\* C39: cancel_booking calls bookingTools.cancelTicket only when the API key
\* authenticates, the booking exists and its passenger_id is the authenticated
\* user's id, and then once, with the booking id it was given; in every other
\* case it returns a refusal or error text and cancelTicket is not called.
C39_CancelOnlyOwnBooking ==
    CancelCall
        => /\ Len(cancelTicketCalls) <= 1
           /\ cancelTicketCalls # <<>>
                  => /\ Authenticates(srvCall.key)
                     /\ OwnsBooking(srvCall.key, srvCall.args)
                     /\ cancelTicketCalls = <<srvCall.args>>
           /\ (srvPc = "done" /\ ~(Authenticates(srvCall.key) /\ OwnsBooking(srvCall.key, srvCall.args)))
                  => /\ cancelTicketCalls = <<>>
                     /\ srvOut \in {<<"Cancellation Error">>, <<"Booking not found.">>, <<"Access denied.">>}
C39_Witness ==
    /\ CancelCall /\ srvPc = "done"
    /\ srvCall.key = Str(KeyPassenger) /\ srvCall.args = 11
    /\ cancelTicketCalls = <<11>> /\ srvOut = <<"cancelTicket result">>

\* the handler and its listener have run to their end for an uploaded file
UploadOver == upPc \in {"done", "abandoned"} /\ upFile # "none"

\* C38: for every uploaded file uploadRouteCSV ends in one of two outcomes:
\* all routes and stops of the CSV committed and a 200 response, or nothing
\* persisted and a 500 response; in both the uploaded file is deleted, the
\* connection released and exactly one response sent.
C38_UploadTwoOutcomes ==
    UploadOver
        => /\ Len(upRes) = 1
           /\ upFile = "deleted"
           /\ connection = "released"
           /\ \/ upRes[1].status = 200 /\ committed = UploadInserts(upRows)
              \/ upRes[1].status = 500 /\ committed = <<>>

====
